---- MODULE Spec2Model ----
(***************************************************************************)
(* Model of stack-assets/stack-updater/update_stack_definition.py: the     *)
(* update selector get_latest_valid_version and the member loop of the     *)
(* script's __main__ block.                                                *)
(*                                                                         *)
(* Python values are modelled as follows.                                  *)
(*   dict          a function whose DOMAIN is the set of keys present      *)
(*   list          a sequence                                              *)
(*   str           a sequence of one-character strings                     *)
(*   x or None     <<x>> (a value) or <<>> (None), see Some / None         *)
(***************************************************************************)
EXTENDS Integers, Sequences, FiniteSets, TLC

\* ------------------------------------------------------------------ bounds
\* Longest candidate list handed to get_latest_valid_version on its own.
MaxSelLen == 3
\* state.current_entered timestamps range over 1..MaxTime.
MaxTime == 2
\* Most members of a stack definition.
MaxMembers == 2
\* Longest list of updates the catalog returns for an offering.
MaxUpdates == 2
\* Runs of the script in a row on the same file.
MaxRuns == 2
\* Longest response handed to get_version_updates on its own.
MaxFltLen == 3

\* ------------------------------------------------------------ Python values
None == <<>>
Some(x) == <<x>>
IsNone(o) == o = <<>>
Val(o) == o[1]

HasKey(d, k) == k \in DOMAIN d

\* Lifecycle states of a candidate; only "consumable" is accepted.
States == {"consumable", "deprecated"}

\* The "state" dict of an update, with or without its current_entered key.
StateDicts ==
    [current : States, current_entered : 1..MaxTime] \cup [current : States]

\* Updates as get_latest_valid_version reads them: can_update may be absent.
SelCandidates ==
    [can_update : BOOLEAN, state : StateDicts] \cup [state : StateDicts]

SelLists == UNION {[1..n -> SelCandidates] : n \in 0..MaxSelLen}

\* ------------------------------------------------- get_latest_valid_version
\* The key function of the sort raises KeyError on an update without
\* state.current_entered; sorted() calls it on every element.
SortKeyRaises(updates) ==
    \E i \in 1..Len(updates) : ~HasKey(updates[i].state, "current_entered")

SortKey(updates, i) == updates[i].state.current_entered

\* A sort that puts the oldest state first (reverse=True left out).
RECURSIVE InsertAsc(_, _, _)
InsertAsc(updates, s, i) ==
    IF s = <<>> THEN <<i>>
    ELSE IF SortKey(updates, Head(s)) <= SortKey(updates, i)
         THEN <<Head(s)>> \o InsertAsc(updates, Tail(s), i)
         ELSE <<i>> \o s

\* A descending sort that puts an update ahead of the earlier updates with
\* the same key.
RECURSIVE InsertDescUnstable(_, _, _)
InsertDescUnstable(updates, s, i) ==
    IF s = <<>> THEN <<i>>
    ELSE IF SortKey(updates, Head(s)) > SortKey(updates, i)
         THEN <<Head(s)>> \o InsertDescUnstable(updates, Tail(s), i)
         ELSE <<i>> \o s

\* Insert index i into the index list s, ordered by descending key: i goes
\* behind every index whose key is greater than or equal to its own, so
\* equal keys keep their input order (sorted(reverse=True) is stable).
RECURSIVE InsertDesc(_, _, _)
InsertDesc(updates, s, i) ==
    IF s = <<>> THEN <<i>>
    ELSE IF SortKey(updates, Head(s)) >= SortKey(updates, i)
         THEN <<Head(s)>> \o InsertDesc(updates, Tail(s), i)
         ELSE <<i>> \o s

\* The indices of updates in the order sorted() puts them, first n elements.
RECURSIVE SortedOrder(_, _)
SortedOrder(updates, n) ==
    IF n = 0 THEN <<>>
    ELSE InsertDesc(updates, SortedOrder(updates, n - 1), n)

Sorted(updates) ==
    LET order == SortedOrder(updates, Len(updates))
    IN  [k \in 1..Len(updates) |-> updates[order[k]]]

\* The test without its lifecycle half.
AcceptsAnyState(update) == update.can_update

\* if update["can_update"] and update["state"]["current"] == "consumable"
\* (raises KeyError on an update without can_update).
Accepts(update) == update.can_update /\ update.state.current = "consumable"

\* The for loop over the sorted updates from position k on: the first
\* accepted update, None at the end of the list, None (through the except
\* clause) when the test raises.
RECURSIVE ScanFrom(_, _)
ScanFrom(sorted, k) ==
    IF k > Len(sorted) THEN None
    ELSE IF ~HasKey(sorted[k], "can_update") THEN None
    ELSE IF Accepts(sorted[k]) THEN Some(sorted[k])
    ELSE ScanFrom(sorted, k + 1)

\* A selector that leaves out the updates without state.current_entered
\* and selects among the others.
get_latest_skipping_undated(updates) ==
    ScanFrom(Sorted(SelectSeq(updates,
                 LAMBDA u : HasKey(u.state, "current_entered"))), 1)

get_latest_valid_version(updates) ==
    IF SortKeyRaises(updates) THEN None
    ELSE ScanFrom(Sorted(updates), 1)

\* ------------------------------------------------------------- the strings
\* Characters of the locators of the model: a catalog id letter, the
\* separator and two version id digits.
Sep == "."

LocV1 == <<"c", ".", "1">>            \* "c.1"
LocV2 == <<"c", ".", "2">>            \* "c.2"
LocNoSep == <<"c", "1">>              \* "c1": no separator
LocTwoSep == <<"c", ".", "1", ".", "2">>   \* "c.1.2": two separators
LocNoVersion == <<"c", ".">>          \* "c.": empty version id
LocNoCatalog == <<".", "1">>          \* ".1": empty catalog id

\* Python's None where a str is expected: equal to no string.
NoneStr == <<"None">>

\* str.split(sep): the parts between the separators, empty parts included.
RECURSIVE Split(_, _)
Split(str, sep) ==
    IF \A k \in 1..Len(str) : str[k] # sep THEN <<str>>
    ELSE LET first == CHOOSE k \in 1..Len(str) :
                          str[k] = sep /\ \A j \in 1..(k - 1) : str[j] # sep
         IN  <<SubSeq(str, 1, first - 1)>>
                 \o Split(SubSeq(str, first + 1, Len(str)), sep)

\* catalogId, versionId = version_locator.split("."): AttributeError on
\* None, ValueError unless the split gives exactly two parts.
UnpackRaises(version_locator) ==
    version_locator = NoneStr \/ Len(Split(version_locator, Sep)) # 2

CatalogIdOf(version_locator) == Split(version_locator, Sep)[1]

\* -------------------------------------------------- the catalog's answers
\* What get_version returns for a locator: None (the service raised), or the
\* version's offering with its kinds.
Offering(kinds) == [id |-> "offering", kinds |-> kinds]
Kind(versions) == [format_kind |-> "terraform", versions |-> versions]
PublishedVersion(v) == [version |-> v, flavor |-> [name |-> "f1"]]

VersionStrings == {"1.0.0", "2.0.0"}

\* None, a version of either version string, or an offering without kinds.
VersionAnswers ==
    {None}
        \cup {Some(Offering(<<Kind(<<PublishedVersion(v)>>)>>)) : v \in VersionStrings}
        \cup {Some(Offering(<<>>))}

\* An update of the offering as get_offering_updates lists it.
Update(loc, v, fl, can, cur, t) ==
    [version_locator |-> loc, version |-> v, flavor |-> [name |-> fl],
     can_update |-> can, state |-> [current |-> cur, current_entered |-> t]]

\* The version "c.1" itself, listed as an update.
UpdCurrent == Update(LocV1, "1.0.0", "f1", TRUE, "consumable", 1)
\* A later release under another locator, with the same version string.
UpdNewer == Update(LocV2, "1.0.0", "f1", TRUE, "consumable", 2)
\* The latest release, deprecated since.
UpdDeprecated == Update(LocV2, "2.0.0", "f1", TRUE, "deprecated", MaxTime)
\* The latest release of another flavor.
UpdOtherFlavor == Update(LocV2, "2.0.0", "f2", TRUE, "consumable", MaxTime)
\* An eligible release whose state has no current_entered.
UpdNoEntered ==
    [version_locator |-> LocV2, version |-> "2.0.0", flavor |-> [name |-> "f1"],
     can_update |-> TRUE, state |-> [current |-> "consumable"]]
\* An eligible release listed without a version_locator.
UpdNoLocator ==
    [version |-> "2.0.0", flavor |-> [name |-> "f1"],
     can_update |-> TRUE, state |-> [current |-> "consumable", current_entered |-> MaxTime]]

RunCandidates ==
    {UpdCurrent, UpdNewer, UpdDeprecated, UpdOtherFlavor, UpdNoEntered, UpdNoLocator}

\* The lists of at most MaxUpdates updates in which no update is listed twice.
UpdateLists ==
    {l \in UNION {[1..n -> RunCandidates] : n \in 0..MaxUpdates} :
        \A a, b \in 1..Len(l) : a # b => l[a] # l[b]}

\* What get_offering_updates returns: None (the service raised) or a list.
UpdateAnswers == {None} \cup {Some(l) : l \in UpdateLists}

\* ------------------------------------------------------ get_version_updates
\* [update for update in response
\*     if "flavor" in update.keys() and update["flavor"]["name"] == flavor]
\* A filter that keeps every update that has a flavor.
MatchesAnyFlavor(update, flavor) == HasKey(update, "flavor")

MatchesFlavor(update, flavor) ==
    HasKey(update, "flavor") /\ update.flavor.name = flavor

\* update["flavor"]["name"] raises KeyError on a flavor without name; the
\* comprehension stops at the first such update.
FlavorRaises(response) ==
    \E n \in 1..Len(response) :
        HasKey(response[n], "flavor") /\ ~HasKey(response[n].flavor, "name")

FilterFlavor(response, flavor) ==
    SelectSeq(response, LAMBDA update : MatchesFlavor(update, flavor))

\* response: the service's answer. None when the call raised or when the
\* comprehension raised KeyError, else the updates of the requested flavor.
get_version_updates(response, flavor) ==
    IF IsNone(response) THEN None
    ELSE IF FlavorRaises(Val(response)) THEN None
    ELSE Some(FilterFlavor(Val(response), flavor))

\* The flavors a filter is asked for, and the flavor dicts of the updates it
\* is run on: with a name, or with a label only.
Flavors == {"f1", "f2"}

FltFlavors == [name : Flavors] \cup {[label |-> "f1"]}

\* Updates as the filter reads them: with a flavor or without.
FltUpdates == [version : VersionStrings, flavor : FltFlavors] \cup [version : VersionStrings]

FltLists == UNION {[1..n -> FltUpdates] : n \in 0..MaxFltLen}

\* Well-formed updates that can be told apart by their version string.
TieCandidates ==
    [version : VersionStrings, can_update : BOOLEAN,
     state : [current : States, current_entered : 1..MaxTime]]

TieLists == UNION {[1..n -> TieCandidates] : n \in 0..MaxSelLen}

\* ------------------------------------------------- reading the descriptor
\* version.get("kinds", [])[0].get("versions")[0] raises on an offering
\* without kinds or a kind without versions, .get("flavor").get("name") on a
\* version without flavor.
DescriptorRaises(version) ==
    \/ Len(version.kinds) = 0
    \/ Len(version.kinds[1].versions) = 0
    \/ ~HasKey(version.kinds[1].versions[1], "flavor")

FirstVersion(version) == version.kinds[1].versions[1]

\* -------------------------------------------------------------------- state
VARIABLES
    sel_pc,        \* "call" before, "returned" after get_latest_valid_version
    sel_updates,   \* the list handed to get_latest_valid_version
    sel_result,    \* what it returned
    sel_flavor,    \* the flavor get_version_updates is asked for, "" when
                   \* the selector is the function called
    run,           \* number of the run of the script, from 1
    pc,            \* where the script is
    api_key,       \* whether --api-key or IBM_CLOUD_API_KEY gives a key
    dry_run,       \* args.dry_run
    stack_file,    \* the members' locators in the file at args.stack, None
                   \* when there is no such file
    loaded,        \* the members' locators as read at the start of the run
    stack,         \* stack["members"][k]["version_locator"], in memory
    member,        \* position of the member the loop is at
    version,       \* get_version's result for the member
    updates,       \* get_version_updates' result for the member
    latest_version,        \* get_latest_valid_version's result
    failures,      \* the list of failures
    updates_made,  \* the flag set when a locator was replaced
    outcome,       \* how each member processed so far ended
    written,       \* whether this run wrote the file
    exit_code,     \* None while the script runs, then the exit code
    catalog_versions,      \* the catalog's answer to each get_version so far
    catalog_updates,       \* its answer to each get_offering_updates so far
    calls,         \* number of calls of the catalog service in this run
    prev           \* None in the first run, then the previous run's results

selVars == <<sel_pc, sel_updates, sel_result, sel_flavor>>

locals == <<version, updates, latest_version>>

catalog == <<catalog_versions, catalog_updates>>

runVars ==
    <<run, pc, api_key, dry_run, stack_file, loaded, stack, member, version, updates,
      latest_version, failures, updates_made, outcome, written, exit_code,
      catalog_versions, catalog_updates, calls, prev>>

vars ==
    <<sel_pc, sel_updates, sel_result, sel_flavor, run, pc, api_key, dry_run, stack_file,
      loaded, stack, member, version, updates, latest_version, failures,
      updates_made, outcome, written, exit_code, catalog_versions,
      catalog_updates, calls, prev>>

\* Locators of the members of the stack definitions the runs start from.
\* LocNoCatalog is unpacked like LocNoVersion (two parts, one of them empty)
\* and is left out: its requests go to a catalog id of their own.
InitLocators == {LocV1, LocNoSep, LocTwoSep, LocNoVersion}

InitStacks == UNION {[1..n -> InitLocators] : n \in 0..MaxMembers}

EmptyFcn == [x \in {} |-> None]

\* The script before its first statement; nothing asked of the catalog yet.
InitRun ==
    /\ run = 1
    /\ pc = "config"
    /\ api_key \in BOOLEAN
    /\ dry_run \in BOOLEAN
    /\ stack_file \in {None} \cup {Some(m) : m \in InitStacks}
    /\ loaded = <<>>
    /\ stack = <<>>
    /\ member = 1
    /\ version = None /\ updates = None /\ latest_version = None
    /\ failures = <<>>
    /\ updates_made = FALSE
    /\ outcome = <<>>
    /\ written = FALSE
    /\ exit_code = None
    /\ catalog_versions = EmptyFcn
    /\ catalog_updates = EmptyFcn
    /\ calls = 0
    /\ prev = None

\* The script not started: the state of the run's variables while
\* get_latest_valid_version is called on its own.
IdleRun ==
    /\ run = 1
    /\ pc = "idle"
    /\ api_key = FALSE
    /\ dry_run = FALSE
    /\ stack_file = None
    /\ loaded = <<>>
    /\ stack = <<>>
    /\ member = 1
    /\ version = None /\ updates = None /\ latest_version = None
    /\ failures = <<>>
    /\ updates_made = FALSE
    /\ outcome = <<>>
    /\ written = FALSE
    /\ exit_code = None
    /\ catalog_versions = EmptyFcn
    /\ catalog_updates = EmptyFcn
    /\ calls = 0
    /\ prev = None

IdleSelect ==
    /\ sel_pc = "idle"
    /\ sel_updates = <<>>
    /\ sel_result = None
    /\ sel_flavor = ""

\* ------------------------------------------- the selector called on its own
InitSelect ==
    /\ sel_pc = "call"
    /\ sel_updates \in SelLists
    /\ sel_result = None
    /\ sel_flavor = ""
    /\ IdleRun

CallSelect ==
    /\ sel_pc = "call"
    /\ sel_result' = get_latest_valid_version(sel_updates)
    /\ sel_pc' = "returned"
    /\ UNCHANGED <<sel_updates, sel_flavor>>
    /\ UNCHANGED runVars

NextSelect == CallSelect

SpecSelect == InitSelect /\ [][NextSelect]_vars

\* ------------------------------------- get_version_updates' filter on its own
InitFilter ==
    /\ sel_pc = "call"
    /\ sel_updates \in FltLists
    /\ sel_result = None
    /\ sel_flavor \in Flavors
    /\ IdleRun

CallFilter ==
    /\ sel_pc = "call"
    /\ sel_result' = get_version_updates(Some(sel_updates), sel_flavor)
    /\ sel_pc' = "returned"
    /\ UNCHANGED <<sel_updates, sel_flavor>>
    /\ UNCHANGED runVars

NextFilter == CallFilter

SpecFilter == InitFilter /\ [][NextFilter]_vars

\* ------------------------- the selector called on updates that can be told apart
InitTie ==
    /\ sel_pc = "call"
    /\ sel_updates \in TieLists
    /\ sel_result = None
    /\ sel_flavor = ""
    /\ IdleRun

SpecTie == InitTie /\ [][NextSelect]_vars

\* ------------------------------------------------------------ the script
\* if not api_key: exit(1); if not os.path.exists(args.stack): exit(1)
CheckConfig ==
    /\ pc = "config"
    /\ IF ~api_key \/ IsNone(stack_file)
       THEN /\ exit_code' = Some(1)
            /\ pc' = "aborted"
       ELSE /\ pc' = "load"
            /\ UNCHANGED exit_code
    /\ UNCHANGED <<run, calls, api_key, dry_run, stack_file, loaded, stack, member,
                   locals, failures, updates_made, outcome, written, catalog,
                   prev>>
    /\ UNCHANGED selVars

\* failures = []; stack = json.loads(f.read()); updates_made = False
LoadStack ==
    /\ pc = "load"
    /\ loaded' = Val(stack_file)
    /\ stack' = Val(stack_file)
    /\ failures' = <<>>
    /\ updates_made' = FALSE
    /\ member' = 1
    /\ pc' = IF Len(Val(stack_file)) = 0 THEN "write_back" ELSE "parse"
    /\ UNCHANGED <<run, calls, api_key, dry_run, stack_file, locals, outcome, written,
                   exit_code, catalog, prev>>
    /\ UNCHANGED selVars

\* The loop goes on to its next member, or ends behind the last one.
NextMember ==
    /\ member' = member + 1
    /\ pc' = IF member < Len(stack) THEN "parse" ELSE "write_back"
    /\ version' = None
    /\ updates' = None
    /\ latest_version' = None

\* A failure that ends the loop (break for continue).
FailBreaks(what, fetched, selected) ==
    /\ failures' = Append(failures, [member |-> member, what |-> what])
    /\ outcome' = Append(outcome, [result |-> "Failed", said |-> "",
                                   fetched |-> fetched, selected |-> selected])
    /\ member' = member + 1
    /\ pc' = "write_back"
    /\ version' = None
    /\ updates' = None
    /\ latest_version' = None
    /\ UNCHANGED <<stack, updates_made>>

\* A failure that is logged and not recorded.
FailUnrecorded(what, fetched, selected) ==
    /\ outcome' = Append(outcome, [result |-> "Failed", said |-> "",
                                   fetched |-> fetched, selected |-> selected])
    /\ NextMember
    /\ UNCHANGED <<stack, updates_made, failures>>

\* A failure put at the head of the failure list.
FailPrepends(what, fetched, selected) ==
    /\ failures' = <<[member |-> member, what |-> what]>> \o failures
    /\ outcome' = Append(outcome, [result |-> "Failed", said |-> "",
                                   fetched |-> fetched, selected |-> selected])
    /\ NextMember
    /\ UNCHANGED <<stack, updates_made>>

\* A failure branch without its "continue": the member runs on into the
\* except clause, which records it a second time.
FailRecordsTwice(what, fetched, selected) ==
    /\ failures' = failures \o <<[member |-> member, what |-> what],
                                  [member |-> member, what |-> "exception"]>>
    /\ outcome' = Append(outcome, [result |-> "Failed", said |-> "",
                                   fetched |-> fetched, selected |-> selected])
    /\ NextMember
    /\ UNCHANGED <<stack, updates_made>>

\* failures.append(...), from a "continue" branch or from the except clause.
Fail(what, fetched, selected) ==
    /\ failures' = Append(failures, [member |-> member, what |-> what])
    /\ outcome' = Append(outcome, [result |-> "Failed", said |-> "",
                                   fetched |-> fetched, selected |-> selected])
    /\ NextMember
    /\ UNCHANGED <<stack, updates_made>>

\* catalogId, versionId = version_locator.split(".")
Parse ==
    /\ pc = "parse"
    /\ IF UnpackRaises(stack[member])
       THEN Fail("exception", None, None)
       ELSE /\ pc' = "fetch_current"
            /\ UNCHANGED <<stack, member, locals, failures, updates_made, outcome>>
    /\ UNCHANGED <<run, calls, api_key, dry_run, stack_file, loaded, written,
                   exit_code, catalog, prev>>
    /\ UNCHANGED selVars

\* The catalog's answer to a request: the one it gave before, if it was
\* asked before, else any.
Answer(asked, request, answers) ==
    IF request \in DOMAIN asked THEN {asked[request]} ELSE answers

\* version = get_version(version_locator, api_key); if version is None: ...
FetchCurrent ==
    /\ pc = "fetch_current"
    /\ \E response \in Answer(catalog_versions, stack[member], VersionAnswers) :
          /\ catalog_versions' = (stack[member] :> response) @@ catalog_versions
          /\ IF IsNone(response)
             THEN /\ Fail("get_version", None, None)
             ELSE /\ version' = response
                  /\ pc' = "extract"
                  /\ UNCHANGED <<stack, member, updates, latest_version, failures,
                                 updates_made, outcome>>
    /\ calls' = calls + 1
    /\ UNCHANGED <<run, api_key, dry_run, stack_file, loaded, written,
                   exit_code, catalog_updates, prev>>
    /\ UNCHANGED selVars

\* kind, flavor and offeringId read from the version.
ExtractDescriptor ==
    /\ pc = "extract"
    /\ IF DescriptorRaises(Val(version))
       THEN Fail("exception", None, None)
       ELSE /\ pc' = "fetch_candidates"
            /\ UNCHANGED <<stack, member, locals, failures, updates_made, outcome>>
    /\ UNCHANGED <<run, calls, api_key, dry_run, stack_file, loaded, written,
                   exit_code, catalog, prev>>
    /\ UNCHANGED selVars

\* The request get_version_updates sends for the member.
UpdatesRequest ==
    <<Val(version).id, CatalogIdOf(stack[member]),
      Val(version).kinds[1].format_kind>>

\* updates = get_version_updates(...); if updates is None: ...
FetchCandidates ==
    /\ pc = "fetch_candidates"
    /\ \E response \in Answer(catalog_updates, UpdatesRequest, UpdateAnswers) :
          LET filtered ==
                  get_version_updates(response,
                                      FirstVersion(Val(version)).flavor.name)
          IN  /\ catalog_updates' = (UpdatesRequest :> response) @@ catalog_updates
              /\ IF IsNone(filtered)
                 THEN Fail("get_version_updates", None, None)
                 ELSE /\ updates' = filtered
                      /\ pc' = "select"
                      /\ UNCHANGED <<stack, member, version, latest_version,
                                     failures, updates_made, outcome>>
    /\ calls' = calls + 1
    /\ UNCHANGED <<run, api_key, dry_run, stack_file, loaded, written,
                   exit_code, catalog_versions, prev>>
    /\ UNCHANGED selVars

\* latest_version = get_latest_valid_version(updates); if None: ...
Select ==
    /\ pc = "select"
    /\ LET latest == get_latest_valid_version(Val(updates))
       IN  IF IsNone(latest)
           THEN Fail("get_latest_valid_version", updates, None)
           ELSE /\ latest_version' = latest
                /\ pc' = "compare"
                /\ UNCHANGED <<stack, member, version, updates, failures,
                               updates_made, outcome>>
    /\ UNCHANGED <<run, calls, api_key, dry_run, stack_file, loaded, written,
                   exit_code, catalog, prev>>
    /\ UNCHANGED selVars

\* latest_version.get("version_locator")
LocatorOf(update) ==
    IF HasKey(update, "version_locator") THEN update.version_locator ELSE NoneStr

\* The test that decides the update, made on the version strings.
VersionStringChanged(current_locator, current_version, latest) ==
    current_version # latest.version

\* if member["version_locator"] != latest_version_locator
LocatorChanged(current_locator, current_version, latest) ==
    current_locator # LocatorOf(latest)

\* The assignment made to every member of the stack.
SetAllLocators(members, k, locator) == [j \in 1..Len(members) |-> locator]

\* member["version_locator"] = latest_version_locator
SetLocator(members, k, locator) == [members EXCEPT ![k] = locator]

\* A loop that saves the file as soon as a member's locator is replaced.
CompareWritesAtOnce ==
    /\ pc = "compare"
    /\ LET latest == Val(latest_version)
           current_version == FirstVersion(Val(version)).version
           said == IF current_version # latest.version
                   THEN "Updating" ELSE "up to date"
           changed == LocatorChanged(stack[member], current_version, latest)
       IN  /\ stack' = IF changed
                       THEN SetLocator(stack, member, LocatorOf(latest))
                       ELSE stack
           /\ updates_made' = (updates_made \/ changed)
           /\ outcome' = Append(outcome,
                                [result |-> IF changed THEN "Updated" ELSE "Unchanged",
                                 said |-> said, fetched |-> updates,
                                 selected |-> latest_version])
    /\ NextMember
    /\ stack_file' = IF stack' # stack /\ ~dry_run THEN Some(stack') ELSE stack_file
    /\ UNCHANGED <<run, calls, api_key, dry_run, loaded, failures, written,
                   exit_code, catalog, prev>>
    /\ UNCHANGED selVars

\* The two log lines and the comparison of the locators.
Compare ==
    /\ pc = "compare"
    /\ LET latest == Val(latest_version)
           current_version == FirstVersion(Val(version)).version
           said == IF current_version # latest.version
                   THEN "Updating" ELSE "up to date"
           changed == LocatorChanged(stack[member], current_version, latest)
       IN  /\ stack' = IF changed
                       THEN SetLocator(stack, member, LocatorOf(latest))
                       ELSE stack
           /\ updates_made' = (updates_made \/ changed)
           /\ outcome' = Append(outcome,
                                [result |-> IF changed THEN "Updated" ELSE "Unchanged",
                                 said |-> said, fetched |-> updates,
                                 selected |-> latest_version])
    /\ NextMember
    /\ UNCHANGED <<run, calls, api_key, dry_run, stack_file, loaded, failures, written,
                   exit_code, catalog, prev>>
    /\ UNCHANGED selVars

\* The file written whenever the loop has ended.
WritesAlways(made, dry) == TRUE

\* The file left alone.
WritesNever(made, dry) == FALSE

\* if updates_made: if args.dry_run: ... else: write
Writes(made, dry) == made /\ ~dry

WriteBack ==
    /\ pc = "write_back"
    /\ IF Writes(updates_made, dry_run)
       THEN /\ stack_file' = Some(stack)
            /\ written' = TRUE
       ELSE UNCHANGED <<stack_file, written>>
    /\ pc' = "summary"
    /\ UNCHANGED <<run, calls, api_key, dry_run, loaded, stack, member, locals, failures,
                   updates_made, outcome, exit_code, catalog, prev>>
    /\ UNCHANGED selVars

\* An exit code that reports success once a member was updated.
ExitCodeLenient(failed, made) == IF failed # <<>> /\ ~made THEN 1 ELSE 0

\* if failures: exit(1); else the script ends, with exit code 0.
ExitCode(failed, made) == IF failed # <<>> THEN 1 ELSE 0

Summary ==
    /\ pc = "summary"
    /\ exit_code' = Some(ExitCode(failures, updates_made))
    /\ pc' = "exited"
    /\ UNCHANGED <<run, calls, api_key, dry_run, stack_file, loaded, stack, member,
                   locals, failures, updates_made, outcome, written, catalog,
                   prev>>
    /\ UNCHANGED selVars

\* The script is started again on the same file, without --dry-run; the
\* catalog answers as before.
NextRun ==
    /\ pc = "exited"
    /\ run < MaxRuns
    /\ prev' = Some([dry_run |-> dry_run, loaded |-> loaded, stack |-> stack,
                     failures |-> failures, outcome |-> outcome,
                     written |-> written, exit_code |-> Val(exit_code)])
    /\ run' = run + 1
    /\ dry_run' = FALSE
    /\ pc' = "config"
    /\ loaded' = <<>>
    /\ stack' = <<>>
    /\ member' = 1
    /\ failures' = <<>>
    /\ updates_made' = FALSE
    /\ outcome' = <<>>
    /\ written' = FALSE
    /\ exit_code' = None
    /\ calls' = 0
    /\ UNCHANGED <<api_key, stack_file, locals, catalog>>
    /\ UNCHANGED selVars

Init == InitRun /\ IdleSelect

Next ==
    \/ CheckConfig
    \/ LoadStack
    \/ Parse
    \/ FetchCurrent
    \/ ExtractDescriptor
    \/ FetchCandidates
    \/ Select
    \/ Compare
    \/ WriteBack
    \/ Summary
    \/ NextRun

Spec == Init /\ [][Next]_vars

\* ----------------------------------------------------- claims: the selector
\* An update that is both eligible (can_update) and consumable.
Eligible(u) ==
    HasKey(u, "can_update") /\ u.can_update /\ u.state.current = "consumable"

HasEligible(list) == \E i \in 1..Len(list) : Eligible(list[i])

\* Some eligible and consumable entry has a state.current_entered to compare.
HasDatedEligible(list) ==
    \E i \in 1..Len(list) :
        Eligible(list[i]) /\ HasKey(list[i].state, "current_entered")

\* Every update carries the keys get_latest_valid_version reads.
AllKeysPresent(list) ==
    \A i \in 1..Len(list) :
        HasKey(list[i], "can_update")
        /\ HasKey(list[i].state, "current_entered")

\* u is an eligible entry of the list and no eligible entry of the list that has
\* a current_entered has a later one.
IsLatestEligible(list, u) ==
    /\ \E i \in 1..Len(list) : list[i] = u
    /\ Eligible(u)
    /\ HasKey(u.state, "current_entered")
    /\ \A j \in 1..Len(list) :
          (Eligible(list[j]) /\ HasKey(list[j].state, "current_entered"))
              => list[j].state.current_entered <= u.state.current_entered

\* C1 as stated: for every list with at least one eligible and consumable
\* entry (here: one that has a state.current_entered),
\* get_latest_valid_version returns the eligible and consumable entry with the
\* greatest state.current_entered.
C1_AsStated ==
    (sel_pc = "returned" /\ HasDatedEligible(sel_updates))
        => (~IsNone(sel_result) /\ IsLatestEligible(sel_updates, Val(sel_result)))

\* C1 amended: get_latest_valid_version never returns anything but an eligible
\* and consumable entry of its input, and for every list whose entries all
\* carry can_update and state.current_entered and that holds at least one
\* eligible and consumable entry it returns the one among them with the
\* greatest state.current_entered.
C1_LatestEligible ==
    sel_pc = "returned" =>
        /\ ~IsNone(sel_result) =>
              /\ Eligible(Val(sel_result))
              /\ \E i \in 1..Len(sel_updates) : sel_updates[i] = Val(sel_result)
        /\ (AllKeysPresent(sel_updates) /\ HasEligible(sel_updates)) =>
              /\ ~IsNone(sel_result)
              /\ IsLatestEligible(sel_updates, Val(sel_result))

\* C1 witness: a well-formed list of three entries, two of them eligible with
\* different timestamps and an ineligible one newer than both, has been
\* answered with the newer eligible entry.
C1_Witness ==
    /\ sel_pc = "returned"
    /\ Len(sel_updates) = 3
    /\ AllKeysPresent(sel_updates)
    /\ \E i, j, k \in 1..3 :
          /\ Eligible(sel_updates[i]) /\ Eligible(sel_updates[j])
          /\ ~Eligible(sel_updates[k])
          /\ sel_updates[i].state.current_entered
                < sel_updates[j].state.current_entered
          /\ i < j
          /\ sel_updates[k].state.current_entered
                >= sel_updates[j].state.current_entered
          /\ sel_result = Some(sel_updates[j])

\* C2: for every list in which no entry is both eligible and consumable, the
\* empty list included, get_latest_valid_version returns None.
C2_NoneWithoutEligible ==
    (sel_pc = "returned" /\ ~HasEligible(sel_updates)) => IsNone(sel_result)

\* C2 witness: a non-empty list holding an entry that can update but is
\* deprecated and a consumable entry that cannot update was answered None.
C2_Witness ==
    /\ sel_pc = "returned"
    /\ ~HasEligible(sel_updates)
    /\ \E i, j \in 1..Len(sel_updates) :
          /\ HasKey(sel_updates[i], "can_update") /\ sel_updates[i].can_update
          /\ sel_updates[j].state.current = "consumable"
    /\ AllKeysPresent(sel_updates)
    /\ IsNone(sel_result)

\* ------------------------------------------------------- claims: the script
Processed == 1..Len(outcome)

Results == {"Updated", "Unchanged", "Failed"}

InLoop == pc \in {"parse", "fetch_current", "extract", "fetch_candidates",
                  "select", "compare"}

PassDone == pc \in {"write_back", "summary", "exited"}

SomeResult(r) == \E k \in Processed : outcome[k].result = r

\* The failure list has an entry for member k.
Recorded(k) == \E f \in 1..Len(failures) : failures[f].member = k

\* C3: in a run that passed the configuration checks every member gets
\* exactly one terminal outcome, whatever happened to the members before it:
\* while the loop is at a member, every member before it has its outcome and
\* the loop is inside the stack; once the loop has ended, every member of the
\* stack has one.
C3_FailureIsolation ==
    /\ \A k \in Processed : outcome[k].result \in Results
    /\ InLoop => (Len(outcome) = member - 1 /\ member <= Len(loaded))
    /\ PassDone => Len(outcome) = Len(loaded)

\* C3 witness: the first member failed and the second one was updated.
C3_Witness ==
    /\ pc = "exited"
    /\ Len(outcome) = 2
    /\ outcome[1].result = "Failed"
    /\ outcome[2].result = "Updated"

\* C4: after the member pass the exit code is 0 if and only if the failure
\* list is empty, and it is 1 as soon as one member failed, updates or not.
C4_ExitCode ==
    pc = "exited" =>
        /\ Val(exit_code) \in {0, 1}
        /\ (Val(exit_code) = 0) <=> (failures = <<>>)
        /\ SomeResult("Failed") => Val(exit_code) = 1

\* C4 witness: a run that updated one member, wrote the file, failed on
\* another member and exited with 1.
C4_Witness ==
    /\ pc = "exited"
    /\ SomeResult("Updated")
    /\ SomeResult("Failed")
    /\ written
    /\ exit_code = Some(1)

\* C5: the file is rewritten (with the members' new locators) if and only if
\* a member was updated and dry-run is off; with dry-run on it keeps its
\* content, and the run without dry-run on the same file and catalog records
\* the same failures and ends with the same exit code.
C5_WriteBack ==
    /\ pc \in {"summary", "exited"} =>
          /\ written <=> (SomeResult("Updated") /\ ~dry_run)
          /\ stack_file = Some(IF written THEN stack ELSE loaded)
    /\ (dry_run /\ (InLoop \/ PassDone)) => (~written /\ stack_file = Some(loaded))
    /\ (pc = "exited" /\ ~IsNone(prev) /\ Val(prev).dry_run) =>
          /\ loaded = Val(prev).loaded
          /\ failures = Val(prev).failures
          /\ Val(exit_code) = Val(prev).exit_code

\* C5 witness: a dry run that updated a member and failed on another left
\* the file alone, and the run after it, without dry-run, wrote the file.
C5_Witness ==
    /\ pc = "exited"
    /\ ~IsNone(prev)
    /\ Val(prev).dry_run
    /\ ~Val(prev).written
    /\ \E k \in 1..Len(Val(prev).outcome) : Val(prev).outcome[k].result = "Updated"
    /\ Val(prev).failures # <<>>
    /\ written

\* C6: a member's version_locator is the one loaded unless the member ended
\* Updated, and then it is the selected update's locator: members that
\* failed, members left unchanged and members the loop has not reached yet
\* keep theirs, whatever happens to the other members.
C6_LocatorFrame ==
    (InLoop \/ PassDone) =>
        /\ Len(stack) = Len(loaded)
        /\ \A k \in 1..Len(stack) :
              IF k \in Processed /\ outcome[k].result = "Updated"
              THEN stack[k] = LocatorOf(Val(outcome[k].selected))
              ELSE stack[k] = loaded[k]

\* C6 witness: the first member was updated, the second failed and kept its
\* locator.
C6_Witness ==
    /\ pc = "exited"
    /\ Len(outcome) = 2
    /\ outcome[1].result = "Updated"
    /\ stack[1] # loaded[1]
    /\ outcome[2].result = "Failed"
    /\ stack[2] = loaded[2]

\* C7: a member that reached the comparison is Updated, with the selected
\* update's locator and the flag set, if and only if that locator differs
\* from the member's own, and Unchanged otherwise; the version strings play
\* no part.
C7_CompareByLocator ==
    \A k \in Processed :
        ~IsNone(outcome[k].selected) =>
            LET latest == Val(outcome[k].selected)
            IN  IF LocatorOf(latest) # loaded[k]
                THEN /\ outcome[k].result = "Updated"
                     /\ stack[k] = LocatorOf(latest)
                     /\ updates_made
                ELSE /\ outcome[k].result = "Unchanged"
                     /\ stack[k] = loaded[k]

\* C7 witness: one member was updated to another locator although the
\* version strings were equal, another was left unchanged although they
\* differed.
C7_Witness ==
    /\ pc = "exited"
    /\ \E k \in Processed :
          outcome[k].result = "Updated" /\ outcome[k].said = "up to date"
    /\ \E k \in Processed :
          outcome[k].result = "Unchanged" /\ outcome[k].said = "Updating"

\* Member k was handed a candidate list without an eligible and consumable
\* update.
NoEligibleFor(k) ==
    ~IsNone(outcome[k].fetched) /\ ~HasEligible(Val(outcome[k].fetched))

\* C8 as stated: a member whose candidate list holds no eligible and
\* consumable update does not end Failed, gets no entry in the failure list
\* and does not by itself make the exit code 1.
C8_AsStated ==
    \A k \in Processed :
        NoEligibleFor(k) =>
            /\ outcome[k].result # "Failed"
            /\ ~Recorded(k)
            /\ (pc = "exited" /\ Len(failures) <= 1) => Val(exit_code) = 0

\* C8 amended: a member whose candidate list holds no eligible and consumable
\* update ends Failed with its locator unchanged, "Failed to get latest valid
\* version" is added to the failure list for it, and the run exits with 1.
C8_NoEligibleFails ==
    \A k \in Processed :
        NoEligibleFor(k) =>
            /\ outcome[k].result = "Failed"
            /\ stack[k] = loaded[k]
            /\ \E f \in 1..Len(failures) :
                  failures[f] = [member |-> k, what |-> "get_latest_valid_version"]
            /\ pc = "exited" => Val(exit_code) = 1

\* C8 witness: the only failure of a finished run is a member whose
\* non-empty candidate list held no eligible and consumable update.
C8_Witness ==
    /\ pc = "exited"
    /\ Len(failures) = 1
    /\ \E k \in Processed :
          /\ NoEligibleFor(k)
          /\ Len(Val(outcome[k].fetched)) > 0
          /\ failures[1].member = k
    /\ exit_code = Some(1)

\* The locator does not split on the separator into exactly two non-empty
\* parts.
Malformed(locator) ==
    \/ locator = NoneStr
    \/ Len(Split(locator, Sep)) # 2
    \/ \E n \in 1..Len(Split(locator, Sep)) : Split(locator, Sep)[n] = <<>>

\* C9 as stated: every member whose locator does not split into exactly two
\* non-empty parts ends Failed with its locator unchanged (and the loop goes
\* on); "c.1" is not malformed and is looked up in the catalog.
C9_AsStated ==
    /\ \A k \in Processed :
          Malformed(loaded[k]) =>
              (outcome[k].result = "Failed" /\ stack[k] = loaded[k])
    /\ ~Malformed(LocV1)
    /\ (pc = "fetch_current" /\ ~Malformed(loaded[member]))
          => CatalogIdOf(loaded[member]) = <<"c">>

\* What holds of the parse: a locator without separator or with more than
\* one ends Failed at once, with nothing asked of the catalog for it.
C9_UnpackFails ==
    \A k \in Processed :
        UnpackRaises(loaded[k]) =>
            /\ outcome[k].result = "Failed"
            /\ stack[k] = loaded[k]
            /\ loaded[k] \notin DOMAIN catalog_versions

\* Every member of this run was handed the candidate list it was handed in
\* the run before (none, if it did not get that far).
SameCandidates ==
    /\ Len(outcome) = Len(Val(prev).outcome)
    /\ \A k \in Processed : outcome[k].fetched = Val(prev).outcome[k].fetched

\* C10 as stated: a second run on the file the first run (without dry-run)
\* left, the catalog answering as before, changes no locator, writes
\* nothing, records no failure and exits with 0.
C10_AsStated ==
    (pc = "exited" /\ ~IsNone(prev) /\ ~Val(prev).dry_run) =>
        /\ stack = loaded
        /\ ~written
        /\ failures = <<>>
        /\ exit_code = Some(0)

\* C10 amended: a second run on the file a first run without dry-run left,
\* the catalog answering as before and every member handed the candidate
\* list of the first run, changes no locator and writes nothing; it records
\* the failures of the first run and exits with its code, so that it is a
\* clean success exactly when the first run recorded no failure.
C10_Idempotent ==
    (pc = "exited" /\ ~IsNone(prev) /\ ~Val(prev).dry_run /\ SameCandidates) =>
        /\ loaded = Val(prev).stack
        /\ stack = loaded
        /\ ~written
        /\ \A k \in Processed : outcome[k].result # "Updated"
        /\ failures = Val(prev).failures
        /\ Val(exit_code) = Val(prev).exit_code
        /\ (Val(prev).failures = <<>>) => (failures = <<>> /\ exit_code = Some(0))

\* C10 witness: the first run updated a member and wrote the file; the
\* second run, handed the same candidates, ended with no failure and code 0.
C10_Witness ==
    /\ pc = "exited"
    /\ ~IsNone(prev)
    /\ ~Val(prev).dry_run
    /\ Val(prev).written
    /\ Val(prev).failures = <<>>
    /\ SameCandidates
    /\ Len(outcome) = 2
    /\ stack = loaded
    /\ exit_code = Some(0)

\* Member k was handed a candidate list with an update that has no
\* state.current_entered.
UndatedFor(k) ==
    /\ ~IsNone(outcome[k].fetched)
    /\ \E n \in 1..Len(Val(outcome[k].fetched)) :
          ~HasKey(Val(outcome[k].fetched)[n].state, "current_entered")

\* C11: a member whose candidate list holds an update without
\* state.current_entered has no update selected, whatever else the list
\* holds: it ends Failed, recorded in the failure list, with its locator
\* unchanged.
C11_FailClosed ==
    \A k \in Processed :
        UndatedFor(k) =>
            /\ IsNone(outcome[k].selected)
            /\ outcome[k].result = "Failed"
            /\ stack[k] = loaded[k]
            /\ \E f \in 1..Len(failures) :
                  failures[f] = [member |-> k, what |-> "get_latest_valid_version"]

\* C11 witness: a member failed on a list of two updates, one without
\* state.current_entered and one eligible and consumable with it.
C11_Witness ==
    \E k \in Processed :
        /\ UndatedFor(k)
        /\ HasDatedEligible(Val(outcome[k].fetched))
        /\ outcome[k].result = "Failed"

\* The members named by the failure list, in the list's order.
FailedMembers == [f \in 1..Len(failures) |-> failures[f].member]

\* C12: the failure list names exactly the members that ended Failed, each
\* once, in member order: a member that ended Updated or Unchanged is not
\* in it.
C12_FailureList ==
    /\ \A f, g \in 1..Len(failures) :
          f < g => FailedMembers[f] < FailedMembers[g]
    /\ \A f \in 1..Len(failures) :
          /\ FailedMembers[f] \in Processed
          /\ outcome[FailedMembers[f]].result = "Failed"
    /\ \A k \in Processed :
          outcome[k].result = "Failed" => Recorded(k)
    /\ Len(failures) = Cardinality({k \in Processed : outcome[k].result = "Failed"})

\* C12 witness: a finished pass in which both members failed, so that the
\* failure list has two entries to keep in order.
C12_Witness ==
    /\ PassDone
    /\ Len(outcome) = 2
    /\ outcome[1].result = "Failed"
    /\ outcome[2].result = "Failed"
    /\ Len(failures) = 2

\* The positions of the response whose update has a flavor with the name
\* asked for, and the update at the j-th of them.
OfFlavor ==
    {n \in 1..Len(sel_updates) :
        /\ HasKey(sel_updates[n], "flavor")
        /\ HasKey(sel_updates[n].flavor, "name")
        /\ sel_updates[n].flavor.name = sel_flavor}

NthOfFlavor(j) ==
    sel_updates[CHOOSE n \in OfFlavor : Cardinality({m \in OfFlavor : m < n}) = j - 1]

ExactlyOfFlavor ==
    /\ ~IsNone(sel_result)
    /\ Len(Val(sel_result)) = Cardinality(OfFlavor)
    /\ \A j \in 1..Len(Val(sel_result)) : Val(sel_result)[j] = NthOfFlavor(j)

\* C13 as stated: for every response, get_version_updates returns exactly
\* the updates whose flavor name is the one asked for, in the service's
\* order. A response with an update whose flavor has no name refutes it.
C13_AsStated ==
    (sel_pc = "returned" /\ sel_flavor # "") => ExactlyOfFlavor

\* C13: for a response in which every flavor has a name,
\* get_version_updates returns exactly the updates whose flavor name is the
\* one asked for, in the service's order, an update without flavor being
\* left out without failing the call; for a response in which some update's
\* flavor has no name it returns None.
C13_FlavorFilter ==
    (sel_pc = "returned" /\ sel_flavor # "") =>
        IF FlavorRaises(sel_updates) THEN IsNone(sel_result) ELSE ExactlyOfFlavor

\* C13 witness: a response with two updates of the flavor asked for, and
\* between them one of another flavor or of none, returned as the two
\* updates in their order.
C13_Witness ==
    /\ sel_pc = "returned"
    /\ sel_flavor = "f1"
    /\ Len(sel_updates) = 3
    /\ OfFlavor = {1, 3}
    /\ ~HasKey(sel_updates[2], "flavor")
    /\ sel_updates[1] # sel_updates[3]
    /\ sel_result = Some(<<sel_updates[1], sel_updates[3]>>)

\* The run cannot start: no API key, or no file at args.stack.
ConfigError == ~api_key \/ IsNone(stack_file)

\* C15: the file changes only in the write-back step, which is taken when
\* every member has its outcome and at most once in a run, so that no write
\* falls between two members; and a run with a configuration error goes
\* from its configuration check straight to exit code 1, with no member
\* processed, no catalog call made and the file not written.
C15_WriteOrder ==
    [][/\ (stack_file' # stack_file \/ (written' /\ ~written)) =>
              /\ pc = "write_back" /\ pc' = "summary"
              /\ ~written /\ written'
              /\ Len(outcome) = Len(loaded)
              /\ outcome' = outcome
       /\ (ConfigError /\ pc # "idle") =>
              /\ pc = "config" /\ pc' = "aborted"
              /\ exit_code' = Some(1)
              /\ outcome' = <<>> /\ loaded' = <<>>
              /\ calls' = 0
              /\ catalog_versions' = EmptyFcn /\ catalog_updates' = EmptyFcn
              /\ stack_file' = stack_file /\ ~written'
      ]_vars

\* C15 witness: a run of two members that replaced the first member's
\* locator, went on to the second, and wrote the file behind it.
C15_Witness ==
    /\ written
    /\ Len(outcome) = 2
    /\ outcome[1].result = "Updated"
    /\ stack_file = Some(stack)
    /\ stack # loaded

\* The step behind each step of a member, and what a member that fails in
\* a step is recorded with.
StepAfter(step) ==
    CASE step = "parse" -> "fetch_current"
      [] step = "fetch_current" -> "extract"
      [] step = "extract" -> "fetch_candidates"
      [] step = "fetch_candidates" -> "select"
      [] step = "select" -> "compare"

FailureOf(step) ==
    CASE step = "parse" -> "exception"
      [] step = "fetch_current" -> "get_version"
      [] step = "extract" -> "exception"
      [] step = "fetch_candidates" -> "get_version_updates"
      [] step = "select" -> "get_latest_valid_version"

\* C16: within a member the steps follow each other as parse, fetch_current,
\* extract, fetch_candidates, select, compare; the catalog is called once in
\* fetch_current and once in fetch_candidates and in no other step; and a
\* step that fails ends the member at once: the member is Failed with one
\* more failure entry, its locator as it was, and the loop is at the next
\* member or behind the last.
C16_StepOrder ==
    [][InLoop =>
          /\ calls' = IF pc \in {"fetch_current", "fetch_candidates"}
                      THEN calls + 1 ELSE calls
          /\ \/ /\ pc # "compare"
                /\ pc' = StepAfter(pc)
                /\ member' = member
                /\ failures' = failures /\ outcome' = outcome /\ stack' = stack
             \/ /\ member' = member + 1
                /\ pc' = IF member < Len(stack) THEN "parse" ELSE "write_back"
                /\ Len(outcome') = member
                /\ IF pc = "compare"
                   THEN /\ outcome'[member].result \in {"Updated", "Unchanged"}
                        /\ failures' = failures
                   ELSE /\ outcome'[member].result = "Failed"
                        /\ failures' = Append(failures, [member |-> member,
                                                         what |-> FailureOf(pc)])
                        /\ stack' = stack
      ]_vars

\* C16 witness: a pass in which the first member failed in its first step,
\* with no catalog call, and the second in its selection, behind two calls.
C16_Witness ==
    /\ PassDone
    /\ Len(failures) = 2
    /\ failures[1].what = "exception"
    /\ UnpackRaises(loaded[1])
    /\ failures[2].what = "get_latest_valid_version"
    /\ calls = 2

\* C17 as stated: when the loop has ended, each member's locator is the
\* loaded one or the locator of an update of its candidate list that has
\* the flavor of the member's version, can_update true and state.current
\* "consumable"; it is never None. An eligible update listed without a
\* version_locator refutes it: the member's locator is set to None.
C17_AsStated ==
    PassDone =>
        \A k \in Processed :
            /\ stack[k] # NoneStr
            /\ \/ stack[k] = loaded[k]
               \/ \E n \in 1..Len(Val(outcome[k].fetched)) :
                     LET c == Val(outcome[k].fetched)[n]
                     IN  /\ HasKey(c, "version_locator")
                         /\ c.version_locator = stack[k]
                         /\ c.flavor.name =
                                FirstVersion(Val(catalog_versions[loaded[k]])).flavor.name
                         /\ Eligible(c)

\* The positions of the eligible and consumable updates of the list whose
\* state.current_entered no eligible and consumable update exceeds.
TiedAtMax ==
    {n \in 1..Len(sel_updates) :
        /\ Eligible(sel_updates[n])
        /\ \A m \in 1..Len(sel_updates) :
              Eligible(sel_updates[m]) =>
                  sel_updates[m].state.current_entered
                      <= sel_updates[n].state.current_entered}

\* C18: of the eligible and consumable updates that share the greatest
\* state.current_entered, get_latest_valid_version returns the one at the
\* earliest position of its input.
C18_TieBreak ==
    (sel_pc = "returned" /\ sel_flavor = "" /\ TiedAtMax # {}) =>
        \E n \in TiedAtMax :
            /\ \A m \in TiedAtMax : n <= m
            /\ sel_result = Some(sel_updates[n])

\* C18 witness: two different eligible and consumable updates share the
\* greatest state.current_entered, and the earlier of them was returned.
C18_Witness ==
    /\ sel_pc = "returned"
    /\ sel_flavor = ""
    /\ \E n, m \in TiedAtMax :
          /\ n < m
          /\ sel_updates[n] # sel_updates[m]
          /\ sel_result = Some(sel_updates[n])

====
